---- MODULE Spec2Model ----
(***************************************************************************)
(* Model of mcp-security-scanner: the orchestrator scanner() of            *)
(* src/index.js, its four scan modules (static analysis, dependencies,     *)
(* permissions, metadata), the risk scoring and the CLI action of          *)
(* bin/mcp-scan.js.                                                        *)
(*                                                                         *)
(* A source file's text is a sequence of lexical tokens.  A regular        *)
(* expression of a catalog is modelled by the tokens it matches; "\n" is   *)
(* the newline token and the quote tokens open or close string literals.   *)
(***************************************************************************)
EXTENDS Integers, Sequences, FiniteSets, TLC

(***************************************************************************)
(* Bounds of the model.                                                    *)
(***************************************************************************)
MaxFiles == 2
MaxTokens == 3
MaxVulns == 3
MaxTools == 2
MaxScanTokens == 2

(***************************************************************************)
(* Generic helpers.                                                        *)
(***************************************************************************)
Range(s) == {s[i] : i \in 1..Len(s)}

SeqsUpTo(S, n) == UNION {[1..k -> S] : k \in 0..n}

RECURSIVE FlattenSeq(_)
FlattenSeq(ss) ==
  IF ss = <<>> THEN <<>> ELSE Head(ss) \o FlattenSeq(Tail(ss))

RECURSIVE SumSeq(_)
SumSeq(s) == IF s = <<>> THEN 0 ELSE Head(s) + SumSeq(Tail(s))

Min(a, b) == IF a <= b THEN a ELSE b

\* Array.prototype.indexOf, 0-based, -1 when absent.
IndexOf(s, x) ==
  IF \E i \in 1..Len(s) : s[i] = x
  THEN (CHOOSE i \in 1..Len(s) : s[i] = x /\ \A j \in 1..(i - 1) : s[j] # x) - 1
  ELSE -1

\* Names every plain JavaScript object inherits from Object.prototype: a
\* property read obj[key] with such a key yields the inherited (truthy)
\* value when obj has no own property of that name.
ObjectPrototypeKeys ==
  {"constructor", "toString", "valueOf", "hasOwnProperty", "isPrototypeOf",
   "propertyIsEnumerable", "toLocaleString", "__proto__"}

Severities == {"critical", "high", "medium", "low", "info"}

Modules == {"static", "deps", "perms", "meta"}

\* A Finding.  subject is the capability or package the finding is about
\* ("" when it has none), occurrences the count the finding reports (in its
\* occurrences field or in its message; 0 when it reports none).
Finding(m, id, sev, file, line, subject, occ) ==
  [module |-> m, id |-> id, severity |-> sev, file |-> file, line |-> line,
   subject |-> subject, occurrences |-> occ]

(***************************************************************************)
(* Source text.                                                            *)
(***************************************************************************)
Newline == "\n"

\* A lone single quote, double quote or backtick character.
QuoteTokens == {"SQUOTE", "DQUOTE", "BTICK"}

\* A backslash followed by a single quote: an escaped quote.  Tokens are
\* separated by blanks, so no token directly follows a quote character.
EscapedQuote == "ESC_SQUOTE"

\* The quote character a token holds, if any.
QuoteCharOf(tok) == IF tok = EscapedQuote THEN "SQUOTE" ELSE tok

\* The identifiers a token holds between word boundaries.  "exec($tpl)" stands
\* for an exec call whose argument is a template literal with an
\* interpolation.
WordsIn(tok) ==
  CASE tok = "exec($tpl)" -> {"exec"}
    [] tok = "eval(x)" -> {"eval", "x"}
    [] tok = "req.body.id" -> {"req", "body", "id"}
    [] tok \in {Newline, EscapedQuote} \cup QuoteTokens -> {}
    [] OTHER -> {tok}

\* 1-based line number of the token at index i:
\* content.substring(0, match.index).split('\n').length
LineOf(content, i) ==
  1 + Cardinality({j \in 1..(i - 1) : content[j] = Newline})

\* The result of a module that returned normally.
ModuleOk(m, findings) ==
  [module |-> m, threw |-> FALSE, error |-> "", findings |-> findings]

\* A module whose promise rejected with an Error carrying this message.
ModuleThrew(m, message) ==
  [module |-> m, threw |-> TRUE, error |-> message, findings |-> <<>>]

(***************************************************************************)
(* Static analysis module (src/modules/static-analysis.js).                *)
(***************************************************************************)
PATTERNS ==
  << [id |-> "shell-injection", severity |-> "critical"],
     [id |-> "eval-usage", severity |-> "critical"],
     [id |-> "path-traversal", severity |-> "high"],
     [id |-> "hardcoded-secret", severity |-> "critical"],
     [id |-> "unsafe-deserialization", severity |-> "high"],
     [id |-> "missing-input-validation", severity |-> "medium"],
     [id |-> "http-not-https", severity |-> "medium"],
     [id |-> "cors-wildcard", severity |-> "medium"] >>

\* Whether the rule's regular expression matches at this token.
RuleMatches(ruleId, tok) ==
  \/ ruleId = "shell-injection" /\ tok = "exec($tpl)"
  \/ ruleId = "eval-usage" /\ tok = "eval(x)"
  \/ ruleId = "missing-input-validation" /\ tok = "req.body.id"

\* isInString: every quote character before the position toggles the state of
\* its kind (the escape test compares one character with a two-character
\* string, so it never suppresses a toggle: an escaped quote toggles too).
isInString(content, position) ==
  \E q \in QuoteTokens :
    Cardinality({j \in 1..(position - 1) : QuoteCharOf(content[j]) = q}) % 2 = 1

\* The findings of one rule on one file: one per match, in match order.
RuleFindings(file, rule) ==
  LET hits == SelectSeq([i \in 1..Len(file.content) |-> i],
                 LAMBDA i :
                   /\ RuleMatches(rule.id, file.content[i])
                   /\ ~(rule.id = "eval-usage" /\ isInString(file.content, i)))
  IN [k \in 1..Len(hits) |->
        Finding("static", rule.id, rule.severity, file.relative,
                LineOf(file.content, hits[k]), "", 0)]

\* Unreadable files are skipped.
StaticFileFindings(file) ==
  IF file.readable
  THEN FlattenSeq([r \in 1..Len(PATTERNS) |-> RuleFindings(file, PATTERNS[r])])
  ELSE <<>>

scanStatic(ctx) ==
  ModuleOk("static",
    FlattenSeq([f \in 1..Len(ctx.files) |-> StaticFileFindings(ctx.files[f])]))

(***************************************************************************)
(* Permissions module (src/modules/permissions.js).                        *)
(***************************************************************************)
\* Each pattern is named by the word it matches between word boundaries; the
\* patterns that match more than a single word are named by their shape and
\* match no token of the model's alphabet.
CAPABILITY_PATTERNS ==
  << [capability |-> "fs:read",
      patterns |-> <<"readFile", "readFileSync", "createReadStream", "readdir",
                     "readdirSync", "stat", "statSync">>],
     [capability |-> "fs:write",
      patterns |-> <<"writeFile", "writeFileSync", "createWriteStream", "mkdir",
                     "mkdirSync", "unlink", "unlinkSync", "rm", "rmSync">>],
     [capability |-> "network:http",
      patterns |-> <<"fetch (", "axios", "http(s).member", "http.request",
                     "http.get", "new URL">>],
     [capability |-> "network:ws",
      patterns |-> <<"new WebSocket", "WebSocketServer", "ws.member">>],
     [capability |-> "process:exec",
      patterns |-> <<"exec", "execSync", "spawn", "spawnSync", "child_process",
                     "execFile">>],
     [capability |-> "process:env", patterns |-> <<"process.env">>],
     [capability |-> "crypto",
      patterns |-> <<"crypto.member", "createHash", "createHmac",
                     "randomBytes">>] >>

CapabilityIds == {CAPABILITY_PATTERNS[i].capability : i \in 1..Len(CAPABILITY_PATTERNS)}

PatternMatches(pattern, tok) == pattern \in WordsIn(tok)

\* Number of matches of any usage signature of the capability in a content.
SignatureMatches(cap, content) ==
  LET rule == CHOOSE r \in Range(CAPABILITY_PATTERNS) : r.capability = cap
  IN Cardinality({<<p, i>> \in (1..Len(rule.patterns)) \X (1..Len(content)) :
                    PatternMatches(rule.patterns[p], content[i])})

\* pattern.lastIndex = 0; pattern.exec(content): the first match only.
FirstMatch(pattern, content) ==
  IF \E i \in 1..Len(content) : PatternMatches(pattern, content[i])
  THEN CHOOSE i \in 1..Len(content) :
         /\ PatternMatches(pattern, content[i])
         /\ \A j \in 1..(i - 1) : ~PatternMatches(pattern, content[j])
  ELSE 0

\* The usages one file adds for one capability: one per pattern that matches.
FileCapUsages(file, rule) ==
  LET ps == SelectSeq([p \in 1..Len(rule.patterns) |-> p],
               LAMBDA p : FirstMatch(rule.patterns[p], file.content) # 0)
  IN [k \in 1..Len(ps) |->
        [file |-> file.relative,
         line |-> LineOf(file.content, FirstMatch(rule.patterns[ps[k]], file.content)),
         match |-> rule.patterns[ps[k]]]]

\* All (capability, usage) pushes in the order the loops make them.
RECURSIVE UsagePushes(_)
UsagePushes(files) ==
  IF files = <<>> THEN <<>>
  ELSE LET file == Head(files)
           here == IF file.readable
                   THEN FlattenSeq([c \in 1..Len(CAPABILITY_PATTERNS) |->
                          LET us == FileCapUsages(file, CAPABILITY_PATTERNS[c])
                          IN [k \in 1..Len(us) |->
                                [capability |-> CAPABILITY_PATTERNS[c].capability,
                                 usage |-> us[k]]]])
                   ELSE <<>>
       IN here \o UsagePushes(Tail(files))

\* Sequence without repetitions, keeping first occurrences (insertion order of
\* a Set or of an object's keys).
RECURSIVE Dedup(_)
Dedup(s) ==
  IF s = <<>> THEN <<>>
  ELSE LET rest == Dedup(SelectSeq(Tail(s), LAMBDA x : x # Head(s)))
       IN <<Head(s)>> \o rest

\* actualUsage as the list of its entries, in key insertion order.
GroupUsages(pushes) ==
  LET keys == Dedup([i \in 1..Len(pushes) |-> pushes[i].capability])
  IN [k \in 1..Len(keys) |->
        [capability |-> keys[k],
         usages |-> LET mine == SelectSeq(pushes, LAMBDA p : p.capability = keys[k])
                    IN [i \in 1..Len(mine) |-> mine[i].usage]]]

ActualUsage(files) == GroupUsages(UsagePushes(files))

\* actualUsage[cap] is truthy: an own key of the object, or a name the object
\* inherits from Object.prototype.
UsageLookupTruthy(usage, cap) ==
  \/ \E k \in 1..Len(usage) : usage[k].capability = cap
  \/ cap \in ObjectPrototypeKeys

\* declaredCapabilities: elements of an array, or keys of an object.
DeclaredCapabilities(manifest) ==
  IF manifest.present /\ ~manifest.nullData
     /\ manifest.capKind \in {"array", "object"}
  THEN Dedup(manifest.caps)
  ELSE <<>>

\* Faulty variant of UndeclaredSeverity: process execution is not singled out.
UndeclaredSeverity_AlwaysMedium(capability) == "medium"

\* capability.startsWith('process:exec'): of the catalog's identifiers only
\* process:exec itself starts so.
UndeclaredSeverity(capability) ==
  IF capability \in {"process:exec"} THEN "high" ELSE "medium"

DangerousCapabilities == {"process:exec", "fs:write", "network:http"}

\* The comparison of declared and actual usage, after the file loop.
PermissionFindings(manifest, usage) ==
  LET declared == DeclaredCapabilities(manifest)
      undeclared == SelectSeq(usage, LAMBDA u : u.capability \notin Range(declared))
      unused == SelectSeq(declared, LAMBDA c : ~UsageLookupTruthy(usage, c))
      dangerous == SelectSeq(usage, LAMBDA u : u.capability \in DangerousCapabilities)
  IN   IF manifest.present
       THEN [k \in 1..Len(undeclared) |->
               Finding("perms", "undeclared-capability",
                       UndeclaredSeverity(undeclared[k].capability),
                       undeclared[k].usages[1].file, undeclared[k].usages[1].line,
                       undeclared[k].capability, Len(undeclared[k].usages))]
            \o
            [k \in 1..Len(unused) |->
               Finding("perms", "unused-capability", "info",
                       manifest.path, 1, unused[k], 0)]
       ELSE [k \in 1..Len(dangerous) |->
               Finding("perms", "no-manifest-dangerous-cap", "low",
                       dangerous[k].usages[1].file, dangerous[k].usages[1].line,
                       dangerous[k].capability, Len(dangerous[k].usages))]

scanPermissions(ctx) ==
  ModuleOk("perms", PermissionFindings(ctx.manifest, ActualUsage(ctx.files)))

(***************************************************************************)
(* Dependencies module (src/modules/dependencies.js).                      *)
(***************************************************************************)
SEVERITY_MAP ==
  [critical |-> "critical", high |-> "high", moderate |-> "medium",
   low |-> "low", info |-> "info"]

\* SEVERITY_MAP[vuln.severity] || 'medium'
MapSeverity(vendor) ==
  IF vendor \in DOMAIN SEVERITY_MAP THEN SEVERITY_MAP[vendor]
  ELSE IF vendor \in ObjectPrototypeKeys THEN "[inherited " \o vendor \o "]"
  ELSE "medium"

PkgName(i) == "pkg" \o ToString(i)

\* auditData after the npm audit call: the parsed stdout when the call
\* succeeded ("ok") or exited non-zero with parseable output ("exit1"),
\* undefined otherwise.
AuditData(audit) ==
  IF audit.status \in {"ok", "exit1"} THEN audit.vulns ELSE <<>>

VulnFindings(audit) ==
  LET vulns == AuditData(audit)
  IN [k \in 1..Len(vulns) |->
        Finding("deps", "vulnerable-dependency", MapSeverity(vulns[k]),
                "package.json", 1, PkgName(k), 0)]

OutdatedData(outdated) ==
  IF outdated.status \in {"ok", "exit1"} THEN outdated.entries ELSE <<>>

OutdatedFindings(outdated) ==
  LET es == OutdatedData(outdated)
      idx == SelectSeq([i \in 1..Len(es) |-> i],
                LAMBDA i : es[i].current # es[i].latest)
  IN [k \in 1..Len(idx) |->
        Finding("deps", "outdated-package",
                IF es[idx[k]].current # es[idx[k]].wanted THEN "medium" ELSE "low",
                "package.json", 1, PkgName(idx[k]), 0)]

\* Both npm calls are wrapped in try/catch: a failed call adds no finding and
\* raises nothing.
scanDeps(ctx, audit, outdated) ==
  ModuleOk("deps", VulnFindings(audit) \o OutdatedFindings(outdated))

(***************************************************************************)
(* Metadata module (src/modules/metadata.js).                              *)
(***************************************************************************)
riskyPatterns == <<"curl", "wget", "eval", "base64", "nc ", "ncat", "/dev/tcp">>

\* A script whose command is not a string (cmd.toLowerCase is not a function).
NonStringCmd == "<number>"

\* cmd.toLowerCase().includes(risky)
CmdIncludes(cmd, risky) ==
  \/ cmd = "curl x | sh" /\ risky = "curl"
  \/ cmd = "wget x; eval y" /\ risky \in {"wget", "eval"}

InstallHooks == {"preinstall", "install", "postinstall"}

MetaFinding(id, sev, file, line) == Finding("meta", id, sev, file, line, "", 0)

\* Faulty variant of PackageFindings: a script yields one risky-script finding
\* however many risky substrings it contains.
PackageFindings_OnePerScript(pkg) ==
  IF pkg.present
  THEN (IF ~pkg.version
        THEN <<MetaFinding("missing-version", "low", "package.json", 1)>> ELSE <<>>)
       \o (IF ~pkg.author /\ ~pkg.contributors
           THEN <<MetaFinding("missing-author", "low", "package.json", 1)>> ELSE <<>>)
       \o (IF ~pkg.license
           THEN <<MetaFinding("missing-license", "low", "package.json", 1)>> ELSE <<>>)
       \o FlattenSeq([i \in 1..Len(pkg.scripts) |->
            IF \E r \in Range(riskyPatterns) : CmdIncludes(pkg.scripts[i].cmd, r)
            THEN <<Finding("meta", "risky-script", "high", "package.json", 1,
                           pkg.scripts[i].name, 0)>>
            ELSE <<>>])
       \o (IF \E i \in 1..Len(pkg.scripts) :
                pkg.scripts[i].name \in InstallHooks /\ pkg.scripts[i].cmd # ""
           THEN <<MetaFinding("install-hook", "medium", "package.json", 1)>>
           ELSE <<>>)
  ELSE <<MetaFinding("missing-package-json", "medium", ".", 0)>>

PackageFindings(pkg) ==
  IF pkg.present
  THEN (IF ~pkg.version
        THEN <<MetaFinding("missing-version", "low", "package.json", 1)>> ELSE <<>>)
       \o (IF ~pkg.author /\ ~pkg.contributors
           THEN <<MetaFinding("missing-author", "low", "package.json", 1)>> ELSE <<>>)
       \o (IF ~pkg.license
           THEN <<MetaFinding("missing-license", "low", "package.json", 1)>> ELSE <<>>)
       \o FlattenSeq([i \in 1..Len(pkg.scripts) |->
            LET hits == SelectSeq(riskyPatterns,
                           LAMBDA r : CmdIncludes(pkg.scripts[i].cmd, r))
            IN [k \in 1..Len(hits) |->
                  Finding("meta", "risky-script", "high", "package.json", 1,
                          pkg.scripts[i].name, 0)]])
       \o (IF \E i \in 1..Len(pkg.scripts) :
                pkg.scripts[i].name \in InstallHooks /\ pkg.scripts[i].cmd # ""
           THEN <<MetaFinding("install-hook", "medium", "package.json", 1)>>
           ELSE <<>>)
  ELSE <<MetaFinding("missing-package-json", "medium", ".", 0)>>

ManifestFindings(manifest) ==
  IF manifest.present
  THEN (IF ~manifest.name
        THEN <<MetaFinding("manifest-missing-name", "low", manifest.path, 1)>>
        ELSE <<>>)
       \o (IF ~manifest.version
           THEN <<MetaFinding("manifest-missing-version", "low", manifest.path, 1)>>
           ELSE <<>>)
       \o (IF manifest.capKind = "absent" /\ manifest.toolsKind = "absent"
           THEN <<MetaFinding("manifest-no-capabilities", "medium", manifest.path, 1)>>
           ELSE <<>>)
       \o (IF manifest.toolsKind = "array"
           THEN LET vague == SelectSeq(manifest.tools, LAMBDA d : d < 10)
                IN [k \in 1..Len(vague) |->
                      MetaFinding("vague-tool-description", "low", manifest.path, 1)]
           ELSE <<>>)
  ELSE <<>>

\* scanMetadata raises a TypeError on a script whose command is not a string
\* and on a manifest whose parsed content is null.
scanMetadata(ctx) ==
  IF ctx.packageJson.present
     /\ \E i \in 1..Len(ctx.packageJson.scripts) :
          ctx.packageJson.scripts[i].cmd = NonStringCmd
  THEN ModuleThrew("meta", "cmd.toLowerCase is not a function")
  ELSE IF ctx.manifest.present /\ ctx.manifest.nullData
  THEN ModuleThrew("meta", "Cannot read properties of null (reading 'name')")
  ELSE ModuleOk("meta",
         PackageFindings(ctx.packageJson) \o ManifestFindings(ctx.manifest))

(***************************************************************************)
(* Risk scoring (src/utils/scoring.js).                                    *)
(***************************************************************************)
SEVERITY_WEIGHTS ==
  [critical |-> 25, high |-> 10, medium |-> 3, low |-> 1, info |-> 0]

\* SEVERITY_WEIGHTS[f.severity] || 0
Weight(sev) ==
  IF sev \in DOMAIN SEVERITY_WEIGHTS THEN SEVERITY_WEIGHTS[sev] ELSE 0

\* Faulty variant of calculateRiskScore: the sum is not capped at 100.
calculateRiskScore_NoClamp(findings) ==
  SumSeq([i \in 1..Len(findings) |-> Weight(findings[i].severity)])

calculateRiskScore(findings) ==
  Min(SumSeq([i \in 1..Len(findings) |-> Weight(findings[i].severity)]), 100)

\* Faulty variant of getRiskLevel: scores up to 2 count as no risk.
getRiskLevel_NoneUpToTwo(score) ==
  IF score >= 75 THEN "critical"
  ELSE IF score >= 50 THEN "high"
  ELSE IF score >= 25 THEN "medium"
  ELSE IF score > 2 THEN "low"
  ELSE "none"

getRiskLevel(score) ==
  IF score >= 75 THEN "critical"
  ELSE IF score >= 50 THEN "high"
  ELSE IF score >= 25 THEN "medium"
  ELSE IF score > 0 THEN "low"
  ELSE "none"

(***************************************************************************)
(* Orchestrator (src/index.js): aggregation.                               *)
(***************************************************************************)
severityOrder ==
  [critical |-> 0, high |-> 1, medium |-> 2, low |-> 3, info |-> 4]

\* (severityOrder[f.severity] || 5): a rank of 0 is falsy and becomes 5.
SortKey(sev) ==
  IF sev \in DOMAIN severityOrder /\ severityOrder[sev] # 0
  THEN severityOrder[sev]
  ELSE 5

\* Array.prototype.sort is stable: an element goes behind every element
\* already placed whose key is not larger.
RECURSIVE InsertSorted(_, _)
InsertSorted(x, sorted) ==
  IF sorted = <<>> THEN <<x>>
  ELSE IF SortKey(Head(sorted).severity) <= SortKey(x.severity)
  THEN <<Head(sorted)>> \o InsertSorted(x, Tail(sorted))
  ELSE <<x>> \o sorted

RECURSIVE SortBySeverity(_)
SortBySeverity(findings) ==
  IF findings = <<>> THEN <<>>
  ELSE InsertSorted(findings[Len(findings)],
                    SortBySeverity(SubSeq(findings, 1, Len(findings) - 1)))

\* null, as the value of a module's error in the module-status map.
Null == "<null>"

\* Faulty variant of HasError: every result counts as failed.
HasError_Always(result) == TRUE

\* result.error is truthy: a non-empty message.
HasError(result) == result.threw /\ result.error # ""

\* The report scanner() builds from the results of the tasks it started.
BuildReport(results) ==
  LET allFindings == FlattenSeq([i \in 1..Len(results) |-> results[i].findings])
      sorted == SortBySeverity(allFindings)
      failed == SelectSeq(results, HasError)
      riskScore == calculateRiskScore(sorted)
  IN [findings |-> sorted,
      errors |-> [i \in 1..Len(failed) |->
                    [module |-> failed[i].module, error |-> failed[i].error]],
      modules |-> [m \in {results[i].module : i \in 1..Len(results)} |->
                    LET r == CHOOSE r \in Range(results) : r.module = m
                    IN [findings |-> Len(r.findings),
                        error |-> IF HasError(r) THEN r.error ELSE Null]],
      summary |-> [riskScore |-> riskScore,
                   riskLevel |-> getRiskLevel(riskScore),
                   totalFindings |-> Len(sorted),
                   bySeverity |->
                     [s \in Severities \cup {sorted[i].severity : i \in 1..Len(sorted)} |->
                        Cardinality({i \in 1..Len(sorted) : sorted[i].severity = s})]]]

(***************************************************************************)
(* Orchestrator (src/index.js): discovery.                                 *)
(***************************************************************************)
ManifestCandidates == <<"server.json", "mcp.json", "manifest.json", ".mcp/config.json">>

\* The parsed content of a manifest file.  nullData: the file holds the JSON
\* value null.  capKind: the capabilities field is absent, an array, an
\* object (caps are its elements or keys) or a non-empty string.  tools: the
\* description lengths of the declared tools.
ManifestData(nullData, name, version, capKind, caps, toolsKind, tools) ==
  [nullData |-> nullData, name |-> name, version |-> version,
   capKind |-> capKind, caps |-> caps, toolsKind |-> toolsKind, tools |-> tools]

EmptyManifestData == ManifestData(FALSE, FALSE, FALSE, "absent", <<>>, "absent", <<>>)

\* The parsed content of package.json.
PackageData(isNull, version, author, contributors, license, scripts) ==
  [isNull |-> isNull, version |-> version, author |-> author,
   contributors |-> contributors, license |-> license, scripts |-> scripts]

EmptyPackageData == PackageData(FALSE, FALSE, FALSE, FALSE, FALSE, <<>>)

\* A file that may be read and parsed as JSON: missing, unparseable
\* ("garbage") or parsed.
MissingFile(d) == [state |-> "missing", data |-> d]
GarbageFile(d) == [state |-> "garbage", data |-> d]
ParsedFile(d) == [state |-> "parsed", data |-> d]

NoManifest ==
  [present |-> FALSE, path |-> "", nullData |-> FALSE, name |-> FALSE,
   version |-> FALSE, capKind |-> "absent", caps |-> <<>>,
   toolsKind |-> "absent", tools |-> <<>>]

\* Faulty variant of findManifest: gives up at the first candidate that cannot
\* be read or parsed instead of trying the next.
findManifest_StopsAtFirstFailure(manifestFiles) ==
  IF manifestFiles[1].state = "parsed"
  THEN [present |-> TRUE, path |-> ManifestCandidates[1],
        nullData |-> manifestFiles[1].data.nullData,
        name |-> manifestFiles[1].data.name,
        version |-> manifestFiles[1].data.version,
        capKind |-> manifestFiles[1].data.capKind,
        caps |-> manifestFiles[1].data.caps,
        toolsKind |-> manifestFiles[1].data.toolsKind,
        tools |-> manifestFiles[1].data.tools]
  ELSE NoManifest

\* findManifest: the first candidate that can be read and parsed; a candidate
\* that is missing or unparseable is passed over.
findManifest(manifestFiles) ==
  IF \E i \in 1..Len(ManifestCandidates) : manifestFiles[i].state = "parsed"
  THEN LET i == CHOOSE i \in 1..Len(ManifestCandidates) :
                  /\ manifestFiles[i].state = "parsed"
                  /\ \A j \in 1..(i - 1) : manifestFiles[j].state # "parsed"
           d == manifestFiles[i].data
       IN [present |-> TRUE, path |-> ManifestCandidates[i],
           nullData |-> d.nullData, name |-> d.name, version |-> d.version,
           capKind |-> d.capKind, caps |-> d.caps,
           toolsKind |-> d.toolsKind, tools |-> d.tools]
  ELSE NoManifest

NoPackage ==
  [present |-> FALSE, version |-> FALSE, author |-> FALSE,
   contributors |-> FALSE, license |-> FALSE, scripts |-> <<>>]

\* findPackageJson: null when the file is missing or unparseable; a file
\* holding the JSON value null parses to null as well.
findPackageJson(packageFile) ==
  IF packageFile.state = "parsed" /\ ~packageFile.data.isNull
  THEN [present |-> TRUE, version |-> packageFile.data.version,
        author |-> packageFile.data.author,
        contributors |-> packageFile.data.contributors,
        license |-> packageFile.data.license,
        scripts |-> packageFile.data.scripts]
  ELSE NoPackage

\* Faulty variant of ScanTasks: deps is started without package metadata.
ScanTasks_DepsWithoutPackage(modules, packageJson) ==
  SelectSeq(<<"static", "deps", "perms", "meta">>, LAMBDA m : m \in modules)

\* scanTasks, in the order scanner() pushes them.
ScanTasks(modules, packageJson) ==
  SelectSeq(<<"static", "deps", "perms", "meta">>,
            LAMBDA m : m \in modules /\ (m = "deps" => packageJson.present))

\* Faulty variant of PromiseAll: the values in the order the promises settled.
PromiseAll_SettlementOrder(promises, settlement, values) ==
  [i \in 1..Len(settlement) |-> values[settlement[i]]]

\* await Promise.all(scanTasks): the values of the promises in the order of
\* the promises, whatever the order they settled in.
PromiseAll(promises, settlement, values) ==
  [i \in 1..Len(promises) |-> values[promises[i]]]

(***************************************************************************)
(* The catalogs' regular expressions as shared objects: every pattern has  *)
(* the global flag, so exec starts at the pattern's lastIndex and moves it. *)
(***************************************************************************)
\* Faulty variant of ResetLastIndex: the cursor stays where the last use left
\* it.
ResetLastIndex_Stale(cursor) == cursor

\* rule.pattern.lastIndex = 0; pattern.lastIndex = 0
ResetLastIndex(cursor) == 0

\* The token indices at which a rule of PATTERNS matches.
RulePositions(ruleId, content) ==
  {i \in 1..Len(content) : RuleMatches(ruleId, content[i])}

\* The token indices at which a pattern of CAPABILITY_PATTERNS matches.
PatternPositions(pattern, content) ==
  {i \in 1..Len(content) : PatternMatches(pattern, content[i])}

\* pattern.exec(content) with the cursor at from: the first match after the
\* cursor, which becomes the new cursor; 0 stands for null, which puts the
\* cursor back to 0.
RegExpExec(positions, from) ==
  IF \E i \in positions : i > from
  THEN CHOOSE i \in positions :
         i > from /\ \A j \in positions : j > from => i <= j
  ELSE 0

\* while ((match = rule.pattern.exec(content)) !== null): the matches from the
\* cursor on; the loop leaves the cursor at 0.
RECURSIVE ExecLoop(_, _)
ExecLoop(positions, from) ==
  LET m == RegExpExec(positions, from)
  IN IF m = 0 THEN <<>> ELSE <<m>> \o ExecLoop(positions, m)

\* scanStatic's work on one file after its readFile resolved, the cursors of
\* the rules being what earlier uses left.
StaticFileRun(file, cursors) ==
  FlattenSeq([r \in 1..Len(PATTERNS) |->
    LET rule == PATTERNS[r]
        all == ExecLoop(RulePositions(rule.id, file.content),
                        ResetLastIndex(cursors[rule.id]))
        hits == SelectSeq(all,
                  LAMBDA i : ~(rule.id = "eval-usage" /\ isInString(file.content, i)))
    IN [k \in 1..Len(hits) |->
          Finding("static", rule.id, rule.severity, file.relative,
                  LineOf(file.content, hits[k]), "", 0)]])

\* scanPermissions' work on one file after its readFile resolved: the usages
\* it pushes.
PermsFileRun(file, cursors) ==
  FlattenSeq([c \in 1..Len(CAPABILITY_PATTERNS) |->
    LET rule == CAPABILITY_PATTERNS[c]
        found == SelectSeq(rule.patterns,
                   LAMBDA p : RegExpExec(PatternPositions(p, file.content),
                                         ResetLastIndex(cursors[p])) # 0)
    IN [k \in 1..Len(found) |->
          [capability |-> rule.capability,
           usage |-> [file |-> file.relative,
                      line |-> LineOf(file.content,
                                 RegExpExec(PatternPositions(found[k], file.content),
                                            ResetLastIndex(cursors[found[k]]))),
                      match |-> found[k]]]]])

\* The cursors scanPermissions leaves after a file: each pattern was executed
\* once.
PermsCursorsAfter(file, cursors) ==
  [p \in DOMAIN cursors |->
     IF \E c \in 1..Len(CAPABILITY_PATTERNS) : p \in Range(CAPABILITY_PATTERNS[c].patterns)
     THEN RegExpExec(PatternPositions(p, file.content), ResetLastIndex(cursors[p]))
     ELSE cursors[p]]

\* The cursors scanStatic leaves after a file: every loop ran to null.
StaticCursorsAfter(file, cursors) ==
  [p \in DOMAIN cursors |->
     IF \E r \in 1..Len(PATTERNS) : p = PATTERNS[r].id THEN 0 ELSE cursors[p]]

\* The regular expressions of both catalogs.
CatalogPatterns ==
  {PATTERNS[r].id : r \in 1..Len(PATTERNS)}
  \cup UNION {Range(CAPABILITY_PATTERNS[c].patterns) : c \in 1..Len(CAPABILITY_PATTERNS)}

(***************************************************************************)
(* CLI (bin/mcp-scan.js).                                                  *)
(***************************************************************************)
cliSeverityOrder == <<"info", "low", "medium", "high", "critical">>

\* The findings left by the minimum-severity filter.
FilterBySeverity(findings, severity) ==
  IF IndexOf(cliSeverityOrder, severity) > 0
  THEN SelectSeq(findings,
         LAMBDA f : IndexOf(cliSeverityOrder, f.severity)
                      >= IndexOf(cliSeverityOrder, severity))
  ELSE findings

hasFailures(findings, threshold) ==
  \E i \in 1..Len(findings) :
    IndexOf(cliSeverityOrder, findings[i].severity)
      >= IndexOf(cliSeverityOrder, threshold)

(***************************************************************************)
(* State.                                                                  *)
(***************************************************************************)
VARIABLES
  opts,        \* CLI options: modules, severity, threshold, ci
  fs,          \* the target: treeReadable, files, manifestFiles, packageFile
  npm,         \* what the npm calls answer: audit, outdated
  faults,      \* modules whose task rejects with an unexpected Error
  pc,          \* "start", "discovered", "reported", "threw", "exited"
  ctx,         \* the context scanner() builds: files, manifest, packageJson
  tasks,       \* scanTasks: the modules started, in order
  taskResult,  \* the results of the settled tasks, by module
  settled,     \* the settled tasks, in the order they settled
  lastIndex,   \* the match cursor of each regular expression of the catalogs
  scans,       \* module scans running concurrently in the process, each
               \* suspended at a file read: module, files, next, collected
  report,      \* the Report (the results object the CLI goes on to filter)
  exitCode     \* process exit status; -1 while the process runs

vars ==
  <<opts, fs, npm, faults, pc, ctx, tasks, taskResult, settled, lastIndex, scans,
    report, exitCode>>

NoContext == [files |-> <<>>, manifest |-> NoManifest, packageJson |-> NoPackage]

NoReport == BuildReport(<<>>)

EmptyMap == [m \in {} |-> ModuleOk(m, <<>>)]

\* The cursors of the catalogs when the modules were loaded.
FreshCursors == [p \in CatalogPatterns |-> 0]

(***************************************************************************)
(* Actions.                                                                *)
(***************************************************************************)
\* scanner(): the discovery phase.  An unreadable tree makes discoverFiles
\* reject, and scanner() with it.
Discover ==
  /\ pc = "start"
  /\ IF fs.treeReadable
     THEN LET packageJson == findPackageJson(fs.packageFile)
          IN /\ ctx' = [files |-> fs.files,
                        manifest |-> findManifest(fs.manifestFiles),
                        packageJson |-> packageJson]
             /\ tasks' = ScanTasks(opts.modules, packageJson)
             /\ pc' = "discovered"
     ELSE /\ pc' = "threw"
          /\ UNCHANGED <<ctx, tasks>>
  /\ UNCHANGED <<opts, fs, npm, faults, taskResult, settled, report, exitCode>>
  /\ UNCHANGED <<lastIndex, scans>>

\* The outcome of a started task, with its .catch handler applied.
Settle(m, result) ==
  /\ pc = "discovered"
  /\ m \in Range(tasks)
  /\ m \notin DOMAIN taskResult
  /\ taskResult' = taskResult @@ (m :> IF m \in faults
                                       THEN ModuleThrew(m, "unexpected error")
                                       ELSE result)
  /\ settled' = Append(settled, m)
  /\ UNCHANGED <<opts, fs, npm, faults, pc, ctx, tasks, report, exitCode>>
  /\ UNCHANGED <<lastIndex, scans>>

RunStatic == Settle("static", scanStatic(ctx))

RunDeps == Settle("deps", scanDeps(ctx, npm.audit, npm.outdated))

RunPerms == Settle("perms", scanPermissions(ctx))

RunMeta == Settle("meta", scanMetadata(ctx))

\* Promise.all(scanTasks) resolved: aggregate and return the Report.
ScannerReturn ==
  /\ pc = "discovered"
  /\ Range(tasks) \subseteq DOMAIN taskResult
  /\ report' = BuildReport(PromiseAll(tasks, settled, taskResult))
  /\ pc' = "reported"
  /\ UNCHANGED <<opts, fs, npm, faults, ctx, tasks, taskResult, settled, exitCode>>
  /\ UNCHANGED <<lastIndex, scans>>

\* The CLI action after scanner() returned: filter by minimum severity, hand
\* the results to the reporters, and in CI mode exit by the threshold.
CliAction ==
  /\ pc = "reported"
  /\ LET kept == FilterBySeverity(report.findings, opts.severity)
     IN /\ report' = [report EXCEPT !.findings = kept]
        /\ exitCode' = IF opts.ci /\ hasFailures(kept, opts.threshold) THEN 1 ELSE 0
  /\ pc' = "exited"
  /\ UNCHANGED <<opts, fs, npm, faults, ctx, tasks, taskResult, settled>>
  /\ UNCHANGED <<lastIndex, scans>>

\* The CLI action's catch: scanner() threw.
CliCatch ==
  /\ pc = "threw"
  /\ exitCode' = 2
  /\ pc' = "exited"
  /\ UNCHANGED <<opts, fs, npm, faults, ctx, tasks, taskResult, settled, report>>
  /\ UNCHANGED <<lastIndex, scans>>

\* A concurrent scanStatic resumes after the read of its next file: it runs
\* every rule on the file, or skips a file it could not read, and suspends at
\* the next read.
ResumeStatic(s) ==
  /\ s \in DOMAIN scans
  /\ scans[s].module = "static"
  /\ scans[s].next <= Len(scans[s].files)
  /\ LET file == scans[s].files[scans[s].next]
     IN IF file.readable
        THEN /\ scans' = [scans EXCEPT ![s].next = @ + 1,
                                       ![s].collected = @ \o StaticFileRun(file, lastIndex)]
             /\ lastIndex' = StaticCursorsAfter(file, lastIndex)
        ELSE /\ scans' = [scans EXCEPT ![s].next = @ + 1]
             /\ UNCHANGED lastIndex
  /\ UNCHANGED <<opts, fs, npm, faults, pc, ctx, tasks, taskResult, settled,
                 report, exitCode>>

\* A concurrent scanPermissions resumes after the read of its next file.
ResumePerms(s) ==
  /\ s \in DOMAIN scans
  /\ scans[s].module = "perms"
  /\ scans[s].next <= Len(scans[s].files)
  /\ LET file == scans[s].files[scans[s].next]
     IN IF file.readable
        THEN /\ scans' = [scans EXCEPT ![s].next = @ + 1,
                                       ![s].collected = @ \o PermsFileRun(file, lastIndex)]
             /\ lastIndex' = PermsCursorsAfter(file, lastIndex)
        ELSE /\ scans' = [scans EXCEPT ![s].next = @ + 1]
             /\ UNCHANGED lastIndex
  /\ UNCHANGED <<opts, fs, npm, faults, pc, ctx, tasks, taskResult, settled,
                 report, exitCode>>

Next ==
  \/ Discover
  \/ RunStatic
  \/ RunDeps
  \/ RunPerms
  \/ RunMeta
  \/ ScannerReturn
  \/ CliAction
  \/ CliCatch

(***************************************************************************)
(* Inputs.                                                                 *)
(***************************************************************************)
FileName(i) == "f" \o ToString(i) \o ".js"

SourceFile(i, readable, content) ==
  [relative |-> FileName(i), readable |-> readable, content |-> content]

\* The file lists of at most k files holding at most n tokens in all.
RECURSIVE Contents(_, _, _)
Contents(alphabet, k, n) ==
  IF k = 0 THEN {<<>>}
  ELSE {<<>>} \cup
       UNION {{<<c>> \o t : t \in Contents(alphabet, k - 1, n - Len(c))} :
                c \in SeqsUpTo(alphabet, n)}

\* The same, as source files; a file without tokens may also be unreadable.
Trees(alphabet, k, n) ==
  UNION {{[i \in 1..Len(cs) |-> SourceFile(i, i \notin unreadable, cs[i])] :
            unreadable \in SUBSET {i \in 1..Len(cs) : cs[i] = <<>>}} :
           cs \in Contents(alphabet, k, n)}

SampleFile == SourceFile(1, TRUE, <<"exec($tpl)", Newline, "writeFile">>)

DefaultOpts ==
  [modules |-> Modules, severity |-> "low", threshold |-> "high", ci |-> FALSE]

NoManifestFiles == [i \in 1..Len(ManifestCandidates) |-> MissingFile(EmptyManifestData)]

ManifestAt(i, file) == [NoManifestFiles EXCEPT ![i] = file]

InitialControl ==
  /\ pc = "start"
  /\ ctx = NoContext
  /\ tasks = <<>>
  /\ taskResult = EmptyMap
  /\ settled = <<>>
  /\ lastIndex = FreshCursors
  /\ scans = <<>>
  /\ report = NoReport
  /\ exitCode = -1

AuditFailed == [status |-> "fail", vulns |-> <<>>]
AuditGarbage == [status |-> "garbage", vulns |-> <<>>]
AuditOk(vulns) == [status |-> "ok", vulns |-> vulns]
AuditExit1(vulns) == [status |-> "exit1", vulns |-> vulns]

OutdatedFailed == [status |-> "fail", entries |-> <<>>]
OutdatedOk(entries) == [status |-> "ok", entries |-> entries]
OutdatedExit1(entries) == [status |-> "exit1", entries |-> entries]

MajorBehind == [current |-> "1.0.0", wanted |-> "1.1.0", latest |-> "2.0.0"]
MinorBehind == [current |-> "1.0.0", wanted |-> "1.0.0", latest |-> "2.0.0"]
UpToDate == [current |-> "1.0.0", wanted |-> "1.0.0", latest |-> "1.0.0"]

\* A complete package.json, one lacking version, author and license, and one
\* with a script whose command is a number.
FullPackage == PackageData(FALSE, TRUE, TRUE, FALSE, TRUE, <<>>)
BarePackage == EmptyPackageData
BadScriptPackage ==
  PackageData(FALSE, TRUE, TRUE, FALSE, TRUE, <<[name |-> "build", cmd |-> NonStringCmd]>>)

DeclaringManifest(capKind, caps) ==
  ManifestData(FALSE, TRUE, TRUE, capKind, caps, "absent", <<>>)

NullManifest == ManifestData(TRUE, FALSE, FALSE, "absent", <<>>, "absent", <<>>)

\* Spec: the orchestrator with any selection of modules, tasks that fail, a
\* tree that cannot be read, and manifest and package files that are missing,
\* unparseable or parsed.
Init ==
  /\ InitialControl
  /\ opts \in {[DefaultOpts EXCEPT !.modules = ms, !.ci = ci] :
                 ms \in SUBSET Modules, ci \in BOOLEAN}
  /\ faults \in SUBSET opts.modules
  /\ fs \in {[treeReadable |-> r, files |-> fl, manifestFiles |-> mf, packageFile |-> pf] :
               r \in BOOLEAN,
               fl \in {<<>>, <<SampleFile>>},
               mf \in {NoManifestFiles,
                       [ManifestAt(1, GarbageFile(EmptyManifestData)) EXCEPT
                          ![2] = ParsedFile(DeclaringManifest("array", <<"network:ws">>))],
                       ManifestAt(1, ParsedFile(NullManifest)),
                       ManifestAt(1, ParsedFile(EmptyManifestData))},
               pf \in {MissingFile(EmptyPackageData), GarbageFile(EmptyPackageData),
                       ParsedFile(FullPackage), ParsedFile(BadScriptPackage)}}
  /\ npm \in {[audit |-> AuditFailed, outdated |-> OutdatedOk(<<>>)],
               [audit |-> AuditOk(<<>>), outdated |-> OutdatedOk(<<>>)],
               [audit |-> AuditExit1(<<"high">>), outdated |-> OutdatedFailed]}

Spec == Init /\ [][Next]_vars

\* SpecScore: all four modules over targets whose findings cover every
\* severity and every score bucket; the audit reports up to MaxVulns
\* vulnerable packages.
InitScore ==
  /\ InitialControl
  /\ opts = DefaultOpts
  /\ faults = {}
  /\ fs \in {[treeReadable |-> r, files |-> fl,
              manifestFiles |-> NoManifestFiles, packageFile |-> ParsedFile(pd)] :
               r \in BOOLEAN,
               fl \in {<<>>, <<SampleFile>>},
               pd \in {FullPackage, BarePackage}}
  /\ npm \in {[audit |-> AuditExit1(v), outdated |-> o] :
                v \in SeqsUpTo({"critical", "high", "moderate", "info"}, MaxVulns),
                o \in {OutdatedOk(<<>>), OutdatedExit1(<<MajorBehind>>)}}

SpecScore == InitScore /\ [][Next]_vars

\* SpecCli: the CLI over every minimum severity and CI threshold, on targets
\* whose findings range from info to critical.
InitCli ==
  /\ InitialControl
  /\ opts \in {[modules |-> Modules, severity |-> sv, threshold |-> th, ci |-> ci] :
                 sv \in Range(cliSeverityOrder), th \in Range(cliSeverityOrder),
                 ci \in BOOLEAN}
  /\ faults = {}
  /\ fs \in {[treeReadable |-> r, files |-> fl, manifestFiles |-> mf,
              packageFile |-> ParsedFile(FullPackage)] :
               r \in BOOLEAN,
               fl \in {<<>>, <<SampleFile>>},
               mf \in {NoManifestFiles,
                       ManifestAt(1, ParsedFile(DeclaringManifest("array", <<"network:ws">>)))}}
  /\ npm \in {[audit |-> a, outdated |-> OutdatedOk(<<>>)] :
                a \in {AuditOk(<<>>), AuditExit1(<<"high">>), AuditExit1(<<"info">>)}}

SpecCli == InitCli /\ [][Next]_vars

\* SpecPerms: the permissions module alone (--modules perms) over every file
\* list of at most MaxFiles files and MaxTokens tokens, without a manifest and
\* with manifests that declare capabilities as an array, as an object, as a
\* string or not at all.
PermsAlphabet == {"exec", "spawn", "writeFile", "createHash", Newline}

InitPerms ==
  /\ InitialControl
  /\ opts = [DefaultOpts EXCEPT !.modules = {"perms"}]
  /\ faults = {}
  /\ fs \in {[treeReadable |-> TRUE, files |-> fl, manifestFiles |-> mf,
              packageFile |-> MissingFile(EmptyPackageData)] :
               fl \in Trees(PermsAlphabet, MaxFiles, MaxTokens),
               mf \in {NoManifestFiles,
                       ManifestAt(1, ParsedFile(DeclaringManifest("absent", <<>>))),
                       ManifestAt(1, ParsedFile(DeclaringManifest("string", <<>>))),
                       ManifestAt(1, ParsedFile(DeclaringManifest("array", <<"process:exec">>))),
                       ManifestAt(2, ParsedFile(DeclaringManifest("array", <<"tools", "tools">>))),
                       ManifestAt(1, ParsedFile(DeclaringManifest("array", <<"fs:write", "constructor">>))),
                       ManifestAt(3, ParsedFile(DeclaringManifest("object", <<"crypto", "process:exec">>)))}}
  /\ npm = [audit |-> AuditOk(<<>>), outdated |-> OutdatedOk(<<>>)]

NextPerms ==
  \/ Discover
  \/ RunPerms
  \/ ScannerReturn
  \/ CliAction

SpecPerms == InitPerms /\ [][NextPerms]_vars

\* SpecMeta: the metadata module over every combination of package fields,
\* scripts, manifest fields and up to MaxTools declared tools, run alone
\* (--modules meta); and all four modules over targets without manifest and
\* without scripts.
ScriptSets ==
  { <<>>,
    <<[name |-> "build", cmd |-> "curl x | sh"]>>,
    <<[name |-> "build", cmd |-> "wget x; eval y"]>>,
    <<[name |-> "postinstall", cmd |-> "node x"]>>,
    <<[name |-> "preinstall", cmd |-> ""]>>,
    <<[name |-> "install", cmd |-> "curl x | sh"], [name |-> "test", cmd |-> "node x"]>> }

\* Description lengths of declared tools: 0 stands for a missing description.
DescriptionLengths == {0, 9, 10}

PackageFiles(scriptSets) ==
  {MissingFile(EmptyPackageData)} \cup
  {ParsedFile(PackageData(FALSE, v, a, c, l, sc)) :
     v \in BOOLEAN, a \in BOOLEAN, c \in BOOLEAN, l \in BOOLEAN, sc \in scriptSets}

ManifestSetups ==
  {NoManifestFiles} \cup
  {ManifestAt(2, ParsedFile(ManifestData(FALSE, n, v, ck, <<>>, "array", tl))) :
     n \in BOOLEAN, v \in BOOLEAN, ck \in {"absent", "array"},
     tl \in SeqsUpTo(DescriptionLengths, MaxTools)} \cup
  {ManifestAt(2, ParsedFile(ManifestData(FALSE, n, v, ck, <<>>, "absent", <<>>))) :
     n \in BOOLEAN, v \in BOOLEAN, ck \in {"absent", "array"}}

InitMeta ==
  /\ InitialControl
  /\ faults = {}
  /\ \E ms \in {{"meta"}, Modules} :
       /\ opts = [DefaultOpts EXCEPT !.modules = ms]
       /\ fs \in {[treeReadable |-> TRUE, files |-> fl, manifestFiles |-> mf,
                   packageFile |-> pf] :
                    fl \in IF ms = Modules THEN {<<>>, <<SampleFile>>} ELSE {<<>>},
                    mf \in IF ms = Modules THEN {NoManifestFiles} ELSE ManifestSetups,
                    pf \in PackageFiles(IF ms = Modules THEN {<<>>} ELSE ScriptSets)}
       /\ npm \in {[audit |-> a, outdated |-> OutdatedOk(<<>>)] :
                     a \in IF ms = Modules
                           THEN {AuditOk(<<>>), AuditExit1(<<"high">>)}
                           ELSE {AuditOk(<<>>)}}

NextMeta ==
  \/ Discover
  \/ RunStatic
  \/ RunDeps
  \/ RunPerms
  \/ RunMeta
  \/ ScannerReturn
  \/ CliAction

SpecMeta == InitMeta /\ [][NextMeta]_vars

\* SpecDeps: the dependencies module alone (--modules deps) over audit
\* payloads of up to MaxVulns entries whose vendor severities are in and out
\* of the vendor vocabulary, and audit and outdated calls that succeed, exit
\* non-zero with output, or fail.
VendorSeverities ==
  {"critical", "high", "moderate", "low", "info", "unknown", "constructor"}

InitDeps ==
  /\ InitialControl
  /\ opts = [DefaultOpts EXCEPT !.modules = {"deps"}]
  /\ faults = {}
  /\ fs = [treeReadable |-> TRUE, files |-> <<>>, manifestFiles |-> NoManifestFiles,
           packageFile |-> ParsedFile(FullPackage)]
  /\ npm \in {[audit |-> a, outdated |-> o] :
                a \in {AuditFailed, AuditGarbage}
                       \cup {AuditOk(v) : v \in SeqsUpTo(VendorSeverities, MaxVulns)}
                       \cup {AuditExit1(v) : v \in SeqsUpTo(VendorSeverities, MaxVulns)},
                o \in {OutdatedFailed, OutdatedOk(<<>>),
                       OutdatedExit1(<<MajorBehind, MinorBehind, UpToDate>>)}}

NextDeps ==
  \/ Discover
  \/ RunDeps
  \/ ScannerReturn
  \/ CliAction

SpecDeps == InitDeps /\ [][NextDeps]_vars

\* SpecShared: two module scans that run concurrently in one process and
\* share the catalogs; each is suspended at the read of its next file and the
\* scheduler resumes them in any order.  The first scans any file list of at
\* most MaxFiles files and MaxScanTokens tokens, the second one of a few file
\* lists with matches at the start and inside of files.
SharedAlphabet == {"exec($tpl)", "eval(x)", Newline}

OtherScanFiles ==
  { <<>>,
    <<SourceFile(1, TRUE, <<"exec($tpl)">>)>>,
    <<SourceFile(1, TRUE, <<"exec($tpl)">>), SourceFile(2, TRUE, <<"exec($tpl)">>)>>,
    <<SourceFile(1, TRUE, <<"eval(x)", "exec($tpl)", "exec($tpl)">>)>>,
    <<SourceFile(1, TRUE, <<Newline, "exec($tpl)">>), SourceFile(2, TRUE, <<"eval(x)">>)>>,
    <<SourceFile(1, FALSE, <<>>), SourceFile(2, TRUE, <<"exec($tpl)", "eval(x)">>)>> }

NewScan(module, files) ==
  [module |-> module, files |-> files, next |-> 1, collected |-> <<>>]

InitShared ==
  /\ opts = DefaultOpts
  /\ fs = [treeReadable |-> TRUE, files |-> <<>>, manifestFiles |-> NoManifestFiles,
           packageFile |-> MissingFile(EmptyPackageData)]
  /\ npm = [audit |-> AuditOk(<<>>), outdated |-> OutdatedOk(<<>>)]
  /\ faults = {}
  /\ pc = "start"
  /\ ctx = NoContext
  /\ tasks = <<>>
  /\ taskResult = EmptyMap
  /\ settled = <<>>
  /\ report = NoReport
  /\ exitCode = -1
  /\ lastIndex = FreshCursors
  /\ scans \in {<<NewScan(ms[1], f1), NewScan(ms[2], f2)>> :
                  ms \in {<<"static", "static">>, <<"perms", "perms">>,
                          <<"static", "perms">>},
                  f1 \in Trees(SharedAlphabet, MaxFiles, MaxScanTokens),
                  f2 \in OtherScanFiles}

NextShared ==
  \/ \E s \in 1..2 : ResumeStatic(s)
  \/ \E s \in 1..2 : ResumePerms(s)

SpecShared == InitShared /\ [][NextShared]_vars

\* SpecStatic: the static-analysis module alone (--modules static) over every
\* file list of at most MaxFiles files and MaxTokens tokens made of quote
\* characters, escaped quotes, eval calls and newlines.
StaticAlphabet == {"SQUOTE", "DQUOTE", EscapedQuote, "eval(x)", Newline}

InitStatic ==
  /\ InitialControl
  /\ opts = [DefaultOpts EXCEPT !.modules = {"static"}]
  /\ faults = {}
  /\ fs \in {[treeReadable |-> TRUE, files |-> fl, manifestFiles |-> NoManifestFiles,
              packageFile |-> MissingFile(EmptyPackageData)] :
               fl \in Trees(StaticAlphabet, MaxFiles, MaxTokens)}
  /\ npm = [audit |-> AuditOk(<<>>), outdated |-> OutdatedOk(<<>>)]

NextStatic ==
  \/ Discover
  \/ RunStatic
  \/ ScannerReturn
  \/ CliAction

SpecStatic == InitStatic /\ [][NextStatic]_vars

(***************************************************************************)
(* Claims.                                                                 *)
(***************************************************************************)
\* The findings in the order the aggregator receives them: the results of the
\* started tasks, concatenated in task order.
Arrival == FlattenSeq([i \in 1..Len(tasks) |-> taskResult[tasks[i]].findings])

\* Importance of a severity: critical first, info last.
ImportanceRank(sev) ==
  CASE sev = "critical" -> 0
    [] sev = "high" -> 1
    [] sev = "medium" -> 2
    [] sev = "low" -> 3
    [] sev = "info" -> 4
    [] OTHER -> 5

OfSeverity(findings, sev) == SelectSeq(findings, LAMBDA f : f.severity = sev)

\* C1: the report's findings are ordered by severity importance, critical
\* first, then high, medium, low, info (no finding precedes a finding of a
\* more important severity), and findings of equal severity keep their
\* arrival order.
C1_SortedBySeverity ==
  pc = "reported" =>
    /\ \A i, j \in 1..Len(report.findings) :
         i < j => ImportanceRank(report.findings[i].severity)
                    <= ImportanceRank(report.findings[j].severity)
    /\ \A sev \in Severities :
         OfSeverity(report.findings, sev) = OfSeverity(Arrival, sev)

\* The weight the scoring documents for a severity.
DocumentedWeight(sev) ==
  CASE sev = "critical" -> 25
    [] sev = "high" -> 10
    [] sev = "medium" -> 3
    [] sev = "low" -> 1
    [] sev = "info" -> 0

WeightSum(findings) ==
  SumSeq([i \in 1..Len(findings) |-> DocumentedWeight(findings[i].severity)])

DocumentedLevel(score) ==
  CASE score = 0 -> "none"
    [] score \in 1..24 -> "low"
    [] score \in 25..49 -> "medium"
    [] score \in 50..74 -> "high"
    [] score \in 75..100 -> "critical"

\* C2: in the Report scanner() returns, summary.riskScore is
\* min(100, sum of the weights of the report's findings), with weights
\* critical 25, high 10, medium 3, low 1, info 0, and summary.riskLevel is the
\* bucket of that score: 0 none, 1-24 low, 25-49 medium, 50-74 high,
\* 75-100 critical.
C2_ScoreAndLevel ==
  pc = "reported" =>
    /\ report.summary.riskScore = Min(100, WeightSum(report.findings))
    /\ report.summary.riskLevel = DocumentedLevel(report.summary.riskScore)

\* C2 witness: a Report whose weight sum exceeds 100 and is clamped.
C2_Witness ==
  /\ pc = "reported"
  /\ WeightSum(report.findings) > 100
  /\ report.summary.riskScore = 100
  /\ report.summary.riskLevel = "critical"

OfModule(findings, m) == SelectSeq(findings, LAMBDA f : f.module = m)

\* Two sequences hold the same elements, each as often.
SameElements(s, t) ==
  /\ Len(s) = Len(t)
  /\ \A x \in Range(s) \cup Range(t) :
       Cardinality({i \in 1..Len(s) : s[i] = x})
         = Cardinality({i \in 1..Len(t) : t[i] = x})

\* The modules whose task raised an error.
Failed == {m \in DOMAIN taskResult : taskResult[m].threw}

ErrorsOf(m) == SelectSeq(report.errors, LAMBDA e : e.module = m)

\* C3: whatever subset of the started modules raises an error, scanner()
\* does not abort and returns a Report; each failing module contributes no
\* finding and exactly one record {module, error} to report.errors, a module
\* that did not fail contributes no error record, and every finding of the
\* modules that did not fail is in report.findings.
C3_FailuresIsolated ==
  /\ Failed # {} => pc \in {"discovered", "reported", "exited"} /\ exitCode # 2
  /\ (pc = "exited" /\ Failed # {}) => DOMAIN report.modules = Range(tasks)
  /\ pc = "reported" =>
       \A m \in Range(tasks) :
         IF m \in Failed
         THEN /\ OfModule(report.findings, m) = <<>>
              /\ ErrorsOf(m) = <<[module |-> m, error |-> taskResult[m].error]>>
         ELSE /\ ErrorsOf(m) = <<>>
              /\ SameElements(OfModule(report.findings, m), taskResult[m].findings)

\* C3 witness: a Report of a run in which two modules failed and another
\* module produced findings.
C3_Witness ==
  /\ pc = "reported"
  /\ Cardinality(Failed) >= 2
  /\ Len(report.errors) = Cardinality(Failed)
  /\ \E m \in Range(tasks) \ Failed : OfModule(report.findings, m) # <<>>

\* C4: when the npm audit call fails in a run of all four modules with package
\* metadata present (and no module raises), the Report holds exactly one error
\* entry, whose module is "deps", and the findings of static, perms and meta
\* are what those modules produce from the context alone.
C4_AuditFailureReported ==
  (/\ pc = "reported"
   /\ opts.modules = Modules
   /\ ctx.packageJson.present
   /\ npm.audit.status \in {"fail", "garbage"}
   /\ Failed = {})
  => /\ Len(report.errors) = 1
     /\ report.errors[1].module = "deps"
     /\ SameElements(OfModule(report.findings, "static"), scanStatic(ctx).findings)
     /\ SameElements(OfModule(report.findings, "perms"), scanPermissions(ctx).findings)
     /\ SameElements(OfModule(report.findings, "meta"), scanMetadata(ctx).findings)

\* The modules scanner() starts: the selected ones, deps only when package
\* metadata was found.
Started == {m \in opts.modules : m = "deps" => ctx.packageJson.present}

\* C5 as stated: the module-status map has an entry for each of the four
\* modules, also for those not selected and for deps without package metadata.
C5_AllFourInStatusMap ==
  pc = "reported" => DOMAIN report.modules = Modules

\* C5 as amended: the module-status map has an entry exactly for each module
\* that was started, holding its finding count and its error text (null when
\* it raised none); a module that did not run has no entry.
C5_StatusMapOfStarted ==
  pc = "reported" =>
    /\ DOMAIN report.modules = Started
    /\ \A m \in Started :
         /\ report.modules[m].findings = Len(taskResult[m].findings)
         /\ report.modules[m].error
              = (IF m \in Failed THEN taskResult[m].error ELSE Null)

\* C5 witness: deps was selected but not started for lack of package metadata,
\* a module was not selected, and a module ran with zero findings.
C5_Witness ==
  /\ pc = "reported"
  /\ "deps" \in opts.modules
  /\ "deps" \notin DOMAIN report.modules
  /\ Modules \ opts.modules # {}
  /\ \E m \in DOMAIN report.modules :
       report.modules[m] = [findings |-> 0, error |-> Null]

ParsedCandidates == {i \in 1..Len(ManifestCandidates) : fs.manifestFiles[i].state = "parsed"}

PermsFindings == taskResult["perms"].findings

PermsDone == "perms" \in DOMAIN taskResult /\ ~taskResult["perms"].threw

\* The capabilities the manifest declares, as array elements or object keys.
Declared ==
  IF ctx.manifest.present /\ ctx.manifest.capKind \in {"array", "object"}
  THEN Range(ctx.manifest.caps)
  ELSE {}

ReadableFiles == {i \in 1..Len(ctx.files) : ctx.files[i].readable}

\* Total number of usage-signature matches of a capability over the files.
TotalMatches(cap) ==
  IF cap \in CapabilityIds
  THEN SumSeq([i \in 1..Len(ctx.files) |->
                 IF ctx.files[i].readable
                 THEN SignatureMatches(cap, ctx.files[i].content) ELSE 0])
  ELSE 0

PermsOf(id, cap) ==
  SelectSeq(PermsFindings, LAMBDA f : f.id = id /\ f.subject = cap)

\* C6: with a manifest present, for every declared capability X that no file
\* matches a usage signature of, scanPermissions emits exactly one
\* unused-capability finding for X (severity info, at the manifest path,
\* line 1) and no undeclared-capability finding for X.
C6_UnusedCapabilityReported ==
  (PermsDone /\ ctx.manifest.present) =>
    \A X \in Declared :
      TotalMatches(X) = 0 =>
        /\ PermsOf("unused-capability", X)
             = <<Finding("perms", "unused-capability", "info",
                         ctx.manifest.path, 1, X, 0)>>
        /\ PermsOf("undeclared-capability", X) = <<>>

\* C7: when a process-execution signature occurs in the files: without a
\* manifest there is exactly one no-manifest-dangerous-cap finding for
\* process:exec, of severity low; with a manifest that does not declare
\* process:exec there is exactly one undeclared-capability finding for it, of
\* severity high.  Without a manifest all findings are such advisories, for
\* process:exec, fs:write or network:http only; every undeclared-capability
\* finding for another capability has severity medium.
C7_ProcessExecSeverity ==
  PermsDone =>
    /\ (TotalMatches("process:exec") > 0 /\ ~ctx.manifest.present) =>
         /\ Len(PermsOf("no-manifest-dangerous-cap", "process:exec")) = 1
         /\ PermsOf("no-manifest-dangerous-cap", "process:exec")[1].severity = "low"
    /\ (TotalMatches("process:exec") > 0 /\ ctx.manifest.present
          /\ "process:exec" \notin Declared) =>
         /\ Len(PermsOf("undeclared-capability", "process:exec")) = 1
         /\ PermsOf("undeclared-capability", "process:exec")[1].severity = "high"
    /\ ~ctx.manifest.present =>
         \A i \in 1..Len(PermsFindings) :
           /\ PermsFindings[i].id = "no-manifest-dangerous-cap"
           /\ PermsFindings[i].severity = "low"
           /\ PermsFindings[i].subject \in {"process:exec", "fs:write", "network:http"}
    /\ \A i \in 1..Len(PermsFindings) :
         (PermsFindings[i].id = "undeclared-capability"
            /\ PermsFindings[i].subject # "process:exec")
         => PermsFindings[i].severity = "medium"

\* C7 witness: a manifest that does not declare process:exec, files that use
\* process:exec and another undeclared capability, and the findings for both.
C7_Witness ==
  /\ PermsDone
  /\ ctx.manifest.present
  /\ "process:exec" \notin Declared
  /\ TotalMatches("process:exec") > 0
  /\ PermsOf("undeclared-capability", "process:exec") # <<>>
  /\ \E i \in 1..Len(PermsFindings) :
       /\ PermsFindings[i].id = "undeclared-capability"
       /\ PermsFindings[i].severity = "medium"

\* The first file that holds a match of the capability, and the line of the
\* earliest match in it.
MatchesAt(cap, content) ==
  LET rule == CHOOSE r \in Range(CAPABILITY_PATTERNS) : r.capability = cap
  IN {i \in 1..Len(content) :
        \E p \in 1..Len(rule.patterns) : PatternMatches(rule.patterns[p], content[i])}

FirstFileWith(cap) ==
  CHOOSE i \in ReadableFiles :
    /\ MatchesAt(cap, ctx.files[i].content) # {}
    /\ \A j \in ReadableFiles : j < i => MatchesAt(cap, ctx.files[j].content) = {}

EarliestLine(cap, content) ==
  LineOf(content, CHOOSE i \in MatchesAt(cap, content) :
                    \A j \in MatchesAt(cap, content) : i <= j)

UsageFindings ==
  SelectSeq(PermsFindings,
    LAMBDA f : f.id \in {"undeclared-capability", "no-manifest-dangerous-cap"})

\* C8 (count): the occurrence count reported for an observed capability is the
\* total number of usage-signature matches of it over all scanned files.
C8_CountIsTotal ==
  PermsDone =>
    \A i \in 1..Len(UsageFindings) :
      UsageFindings[i].occurrences = TotalMatches(UsageFindings[i].subject)

\* C8 (location): the finding's file and line are those of the earliest match
\* in the first file that holds one.
C8_FirstOccurrence ==
  PermsDone =>
    \A i \in 1..Len(UsageFindings) :
      LET cap == UsageFindings[i].subject
          file == ctx.files[FirstFileWith(cap)]
      IN /\ UsageFindings[i].file = file.relative
         /\ UsageFindings[i].line = EarliestLine(cap, file.content)

\* C8: for every capability reported as observed, the occurrence count is the
\* total number of usage-signature matches over all scanned files, and file
\* and line are those of the first occurrence.
C8_CountAndFirstOccurrence == C8_CountIsTotal /\ C8_FirstOccurrence

\* C9: in CI mode the CLI exits with status 1 exactly when the scan produced a
\* finding at least as important as --threshold, and with 0 otherwise,
\* whatever the minimum severity --severity.
C9_CiExitByThreshold ==
  (pc = "exited" /\ opts.ci /\ fs.treeReadable) =>
    exitCode = (IF \E i \in 1..Len(Arrival) :
                     ImportanceRank(Arrival[i].severity)
                       <= ImportanceRank(opts.threshold)
                THEN 1 ELSE 0)

\* The findings scanStatic returned.
StaticFindings == taskResult["static"].findings

StaticDone == "static" \in DOMAIN taskResult /\ ~taskResult["static"].threw

\* The lexical state after the first n tokens of a content: "code", or the
\* quote character of the string literal that is open.  In code a quote
\* character opens a literal; in a literal only an unescaped quote character
\* of the same kind closes it.
RECURSIVE LexState(_, _)
LexState(content, n) ==
  IF n = 0 THEN "code"
  ELSE LET before == LexState(content, n - 1)
           tok == content[n]
       IN IF before = "code"
          THEN (IF QuoteCharOf(tok) \in QuoteTokens THEN QuoteCharOf(tok) ELSE "code")
          ELSE (IF tok = before THEN "code" ELSE before)

\* The token at index i lies inside a string literal that is still open.
InOpenLiteral(content, i) == LexState(content, i - 1) # "code"

EvalMatches(content) ==
  SelectSeq([i \in 1..Len(content) |-> i], LAMBDA i : content[i] = "eval(x)")

\* The lines of the eval-usage findings reported for a file, in order.
EvalLinesReported(file) ==
  LET mine == SelectSeq(StaticFindings,
                LAMBDA f : f.id = "eval-usage" /\ f.file = file.relative)
  IN [k \in 1..Len(mine) |-> mine[k].line]

\* The lines of the eval matches of a file that lie outside open literals.
EvalLinesOutsideLiterals(file) ==
  LET kept == SelectSeq(EvalMatches(file.content),
                LAMBDA i : ~InOpenLiteral(file.content, i))
  IN [k \in 1..Len(kept) |-> LineOf(file.content, kept[k])]

\* C11: an eval-usage match is discarded if and only if its offset lies inside
\* a string literal that is still open at that offset: the eval-usage findings
\* of every readable file are exactly its eval matches outside open literals
\* (a match after closed literals only is reported, one inside an open
\* literal is not).
C11_EvalDiscardedIffInOpenLiteral ==
  StaticDone =>
    \A i \in 1..Len(ctx.files) :
      ctx.files[i].readable =>
        EvalLinesReported(ctx.files[i]) = EvalLinesOutsideLiterals(ctx.files[i])

\* C12: in every Report, the one scanner() returns and the one the CLI hands
\* to the reporters after the minimum-severity filter, summary.bySeverity has
\* exactly the keys critical, high, medium, low, info, each count is the
\* number of findings of that severity in the report's finding sequence, and
\* the counts sum to the number of findings.
C12_CountsMatchFindings ==
  (pc \in {"reported", "exited"} /\ report # NoReport) =>
    /\ DOMAIN report.summary.bySeverity = Severities
    /\ \A sev \in Severities :
         report.summary.bySeverity[sev] = Len(OfSeverity(report.findings, sev))
    /\ report.summary.bySeverity["critical"] + report.summary.bySeverity["high"]
         + report.summary.bySeverity["medium"] + report.summary.bySeverity["low"]
         + report.summary.bySeverity["info"] = Len(report.findings)

\* The ids of a sequence of findings, in order.
IdsOf(findings) == [i \in 1..Len(findings) |-> findings[i].id]

\* A target with zero source files, no manifest, package metadata that has an
\* author but neither license nor version nor scripts, and empty audit and
\* outdated payloads, scanned with all four modules.
C13_Target ==
  /\ opts.modules = Modules
  /\ ctx.files = <<>>
  /\ ~ctx.manifest.present
  /\ ctx.packageJson.present
  /\ ctx.packageJson.author
  /\ ~ctx.packageJson.license
  /\ ~ctx.packageJson.version
  /\ ctx.packageJson.scripts = <<>>
  /\ npm.audit.vulns = <<>>
  /\ npm.outdated.entries = <<>>

\* C13: for such a target the Report's findings are exactly the
\* missing-version and the missing-license finding, riskScore is 2 and
\* riskLevel is low.
C13_TwoMissingFieldFindings ==
  (pc = "reported" /\ C13_Target) =>
    /\ IdsOf(report.findings) = <<"missing-version", "missing-license">>
    /\ \A i \in 1..Len(report.findings) :
         /\ report.findings[i].module = "meta"
         /\ report.findings[i].severity = "low"
    /\ report.summary.totalFindings = 2
    /\ report.summary.riskScore = 2
    /\ report.summary.riskLevel = "low"

\* C13 witness: the Report of such a target, with its two findings.
C13_Witness ==
  /\ pc = "reported"
  /\ C13_Target
  /\ Len(report.findings) = 2

\* The findings scanDeps returned for the entries of the vulnerability payload.
VulnerableDependencyFindings ==
  SelectSeq(taskResult["deps"].findings, LAMBDA f : f.id = "vulnerable-dependency")

DepsDone == "deps" \in DOMAIN taskResult /\ ~taskResult["deps"].threw

\* The entries of the vulnerability payload the audit call delivered.
PayloadEntries ==
  IF npm.audit.status \in {"ok", "exit1"} THEN npm.audit.vulns ELSE <<>>

\* The documented mapping of vendor severities.
DocumentedMapping ==
  [critical |-> "critical", high |-> "high", moderate |-> "medium",
   low |-> "low", info |-> "info"]

\* C14 (mapping): there is one vulnerable-dependency finding per entry of the
\* payload, and for a vendor severity of the vocabulary its severity is the
\* image under critical->critical, high->high, moderate->medium, low->low,
\* info->info.
C14_KnownSeveritiesMapped ==
  DepsDone =>
    /\ Len(VulnerableDependencyFindings) = Len(PayloadEntries)
    /\ \A k \in 1..Len(PayloadEntries) :
         PayloadEntries[k] \in DOMAIN DocumentedMapping =>
           VulnerableDependencyFindings[k].severity = DocumentedMapping[PayloadEntries[k]]

\* C14 (fallback): for a vendor severity outside the vocabulary the finding's
\* severity is still one of the five levels.
C14_UnknownSeverityIsALevel ==
  DepsDone =>
    \A k \in 1..Len(VulnerableDependencyFindings) :
      VulnerableDependencyFindings[k].severity \in Severities

\* C14: every entry of the vulnerability payload yields a finding whose
\* severity is the image of the vendor severity under the fixed mapping, and
\* one of the five levels for any vendor severity outside the vocabulary.
C14_SeverityMapping == C14_KnownSeveritiesMapped /\ C14_UnknownSeverityIsALevel

\* The findings scanMetadata returned.
MetaFindings == taskResult["meta"].findings

MetaDone == "meta" \in DOMAIN taskResult /\ ~taskResult["meta"].threw

CountOfId(id) == Len(SelectSeq(MetaFindings, LAMBDA f : f.id = id))

OneIf(b) == IF b THEN 1 ELSE 0

\* The fixed severity of each kind of metadata finding.
ChecklistSeverity ==
  [x \in {"missing-version", "missing-author", "missing-license",
          "manifest-missing-name", "manifest-missing-version",
          "vague-tool-description"} |-> "low"]
  @@ [x \in {"install-hook", "manifest-no-capabilities", "missing-package-json"}
        |-> "medium"]
  @@ [x \in {"risky-script"} |-> "high"]

RiskySubstrings == {"curl", "wget", "eval", "base64", "nc ", "ncat", "/dev/tcp"}

LifecycleHooks == {"preinstall", "install", "postinstall"}

\* The package scripts that contain a risky substring.
RiskyScripts ==
  {i \in 1..Len(ctx.packageJson.scripts) :
     \E r \in RiskySubstrings : CmdIncludes(ctx.packageJson.scripts[i].cmd, r)}

\* The pairs of a package script and a risky substring it contains.
RiskyPairs ==
  {<<i, r>> \in (1..Len(ctx.packageJson.scripts)) \X RiskySubstrings :
     CmdIncludes(ctx.packageJson.scripts[i].cmd, r)}

\* The declared tools whose description is missing or shorter than 10
\* characters.
VagueTools ==
  IF ctx.manifest.toolsKind = "array"
  THEN {i \in 1..Len(ctx.manifest.tools) : ctx.manifest.tools[i] < 10}
  ELSE {}

\* Every finding has the fixed severity of its kind.
FixedSeverities ==
  \A i \in 1..Len(MetaFindings) :
    /\ MetaFindings[i].id \in DOMAIN ChecklistSeverity
    /\ MetaFindings[i].severity = ChecklistSeverity[MetaFindings[i].id]

\* One finding per missing package field and per missing or vague manifest
\* field.
OnePerMissingField ==
  /\ ctx.packageJson.present =>
       /\ CountOfId("missing-version") = OneIf(~ctx.packageJson.version)
       /\ CountOfId("missing-author")
            = OneIf(~ctx.packageJson.author /\ ~ctx.packageJson.contributors)
       /\ CountOfId("missing-license") = OneIf(~ctx.packageJson.license)
  /\ ctx.manifest.present =>
       /\ CountOfId("manifest-missing-name") = OneIf(~ctx.manifest.name)
       /\ CountOfId("manifest-missing-version") = OneIf(~ctx.manifest.version)
       /\ CountOfId("manifest-no-capabilities")
            = OneIf(ctx.manifest.capKind = "absent" /\ ctx.manifest.toolsKind = "absent")
       /\ CountOfId("vague-tool-description") = Cardinality(VagueTools)

SelectedModules ==
  {m \in opts.modules : m = "deps" => ctx.packageJson.present}

\* The results of the started modules concatenated in the fixed module order
\* static, deps, perms, meta.
FixedOrderFindings ==
  FlattenSeq([i \in 1..4 |->
    LET m == <<"static", "deps", "perms", "meta">>[i]
    IN IF m \in DOMAIN taskResult THEN taskResult[m].findings ELSE <<>>])

\* The errors of the failed modules in the fixed module order.
FixedOrderErrors ==
  FlattenSeq([i \in 1..4 |->
    LET m == <<"static", "deps", "perms", "meta">>[i]
    IN IF m \in DOMAIN taskResult /\ taskResult[m].threw
       THEN <<[module |-> m, error |-> taskResult[m].error]>> ELSE <<>>])

\* C16: the Report is assembled only after every selected module has
\* completed or failed, and its content does not depend on the order in which
\* the modules settled: the findings of each severity are those of the
\* modules in the fixed order static, deps, perms, meta, the errors are in
\* that order, the module-status map has each module's count and error, and
\* the score is that of the findings.
C16_JoinThenOrderIndependent ==
  pc = "reported" =>
    /\ SelectedModules = DOMAIN taskResult
    /\ Range(settled) = SelectedModules
    /\ \A sev \in Severities :
         OfSeverity(report.findings, sev) = OfSeverity(FixedOrderFindings, sev)
    /\ Len(report.findings) = Len(FixedOrderFindings)
    /\ report.errors = FixedOrderErrors
    /\ DOMAIN report.modules = SelectedModules
    /\ \A m \in SelectedModules :
         /\ report.modules[m].findings = Len(taskResult[m].findings)
         /\ report.modules[m].error
              = (IF taskResult[m].threw THEN taskResult[m].error ELSE "<null>")
    /\ report.summary.riskScore = Min(100, WeightSum(FixedOrderFindings))

\* C16 witness: a Report of a run in which a later module settled before an
\* earlier one and both contributed findings of the same severity.
C16_Witness ==
  /\ pc = "reported"
  /\ \E i, j \in 1..Len(settled) :
       /\ i < j
       /\ settled[i] = "meta"
       /\ settled[j] = "perms"
       /\ \E sev \in Severities :
            /\ OfSeverity(taskResult["meta"].findings, sev) # <<>>
            /\ OfSeverity(taskResult["perms"].findings, sev) # <<>>

\* The files a scan has read so far.
FilesRead(s) == SubSeq(scans[s].files, 1, scans[s].next - 1)

ScanDone(s) == scans[s].next > Len(scans[s].files)

ScanInFlight(s) == scans[s].next > 1 /\ ~ScanDone(s)

\* The context of a module run alone on a file list, without manifest.
AloneContext(files) ==
  [files |-> files, manifest |-> NoManifest, packageJson |-> NoPackage]

\* The findings of a concurrent scan, once its file loop has ended.
ScanFindings(s) ==
  IF scans[s].module = "static" THEN scans[s].collected
  ELSE PermissionFindings(NoManifest, GroupUsages(scans[s].collected))

\* The findings the same module produces when run alone on the same files.
AloneFindings(s) ==
  IF scans[s].module = "static"
  THEN scanStatic(AloneContext(scans[s].files)).findings
  ELSE scanPermissions(AloneContext(scans[s].files)).findings

\* What a concurrent scan has collected equals what the module run alone
\* collects on the files read so far.
CollectedAsAlone(s) ==
  scans[s].collected
    = (IF scans[s].module = "static"
       THEN scanStatic(AloneContext(FilesRead(s))).findings
       ELSE UsagePushes(FilesRead(s)))

\* C17: the cursors of the catalogs' regular expressions are state shared by
\* all scans of the process; for every interleaving of two concurrent scans at
\* their file reads, each scan's findings equal the findings the module
\* produces when run alone (at every suspension point what it has collected
\* is what it collects alone on the files read so far), because the cursor is
\* reset before each use and no suspension lies between the reset and the
\* last use of the pattern on the file.
C17_ConcurrentScansAsAlone ==
  \A s \in DOMAIN scans :
    /\ CollectedAsAlone(s)
    /\ ScanDone(s) => ScanFindings(s) = AloneFindings(s)

\* C17 witness: two scans of the permissions module are both suspended in
\* mid-scan with usages collected, and a pattern's cursor is where the other
\* scan's use left it; and one of them ends with findings.
C17_Witness ==
  /\ Len(scans) = 2
  /\ scans[1].module = "perms" /\ scans[2].module = "perms"
  /\ ScanInFlight(2)
  /\ ScanDone(1)
  /\ ScanFindings(1) # <<>>
  /\ scans[2].collected # <<>>
  /\ lastIndex["exec"] > 1

====
